---- MODULE Spec2Model ----
(***************************************************************************)
(* Model of crawl.py: the import crawler (collect_files and the resolvers  *)
(* it drives), the ignore policy, the project-root discovery of main() and *)
(* the filtered directory walk of generate_context.                        *)
(*                                                                         *)
(* A path is the sequence of its segments below "/": /p/app/main.py is     *)
(* <<"p", "app", "main.py">> and "/" is <<>>.  A dotted module name is the  *)
(* sequence of its parts: pkg.a is <<"pkg", "a">>; a missing module name   *)
(* (node.module is None) is <<>>.                                          *)
(***************************************************************************)
EXTENDS Integers, Sequences, FiniteSets, TLC

VARIABLES
    files,        \* the regular files that exist on disk
    unreadable,   \* files whose open()/read() raises
    unparsable,   \* files whose content ast.parse() rejects
    gitDirs,      \* directories that hold a .git folder
    spec,         \* the compiled .gitignore patterns ({} when spec is None or empty)
    entry,        \* file_path of the outermost collect_files call
    root,         \* project_root
    phase,        \* "collect" | "report" | "done"
    call,         \* argument of the collect_files call being entered, or NoCall
    stack,        \* the frames of collect_files that are inside their loop
    collected,    \* the dict, in insertion order: sequence of [path, content]
    reads,        \* history: how often open() was attempted on each path
    via,          \* history: <<importing file, file>> for every recorded import target
    followed,     \* history: <<importing file, node, fp>> of every recursive call made
    lastRes,      \* history: the last resolve_import call and what it returned
    walkTodo,     \* os.walk: the directories still to be yielded (top first)
    printed       \* the directory-tree lines so far, as [path, isDir]

vars == <<files, unreadable, unparsable, gitDirs, spec, entry, root, phase, call,
          stack, collected, reads, via, followed, lastRes, walkTodo, printed>>

fsVars == <<files, unreadable, unparsable, gitDirs, spec, entry, root>>

----------------------------------------------------------------------------
(* Bounds of the model *)

\* at most this many files are unreadable or unparsable in one run
MaxFaults == 1

----------------------------------------------------------------------------
(* os.path *)

\* ".py" appended to a name: name + ".py"
PyName ==
    ("main" :> "main.py") @@ ("util" :> "util.py") @@ ("pkg" :> "pkg.py") @@
    ("a" :> "a.py") @@ ("b" :> "b.py") @@ ("c" :> "c.py") @@ ("x" :> "x.py") @@
    ("v" :> "v.py") @@ ("venv" :> "venv.py") @@ ("app" :> "app.py") @@
    ("app2" :> "app2.py") @@ ("p" :> "p.py")

\* path + ".py": the suffix lands on the last segment ("/" + ".py" is "/.py")
AddPy(path) ==
    IF path = <<>> THEN <<".py">>
    ELSE SubSeq(path, 1, Len(path) - 1) \o <<PyName[path[Len(path)]]>>

\* os.path.dirname of an absolute path; dirname("/") is "/"
dirname(path) ==
    IF path = <<>> THEN <<>> ELSE SubSeq(path, 1, Len(path) - 1)

\* os.path.basename
basename(path) ==
    IF path = <<>> THEN "" ELSE path[Len(path)]

\* os.path.isfile
isfile(path) == path \in files

RECURSIVE CommonPrefixLen(_, _)
CommonPrefixLen(a, b) ==
    IF a = <<>> \/ b = <<>> \/ Head(a) # Head(b) THEN 0
    ELSE 1 + CommonPrefixLen(Tail(a), Tail(b))

\* os.path.commonpath([a, b]) of two absolute paths: the longest common
\* sequence of whole segments
commonpath(a, b) == SubSeq(a, 1, CommonPrefixLen(a, b))

\* os.path.relpath(path, start): one ".." per segment of start below the
\* common path, then the rest of path; "." when they are equal
relpath(path, start) ==
    LET k == CommonPrefixLen(path, start)
        ups == [i \in 1..(Len(start) - k) |-> ".."]
        rest == SubSeq(path, k + 1, Len(path))
    IN IF ups \o rest = <<>> THEN <<".">> ELSE ups \o rest

----------------------------------------------------------------------------
(* The project tree the runs are drawn from *)

MainPy    == <<"p", "app", "main.py">>
UtilPy    == <<"p", "app", "util.py">>
CPy       == <<"p", "app", "c.py">>
PkgPy     == <<"p", "app", "pkg.py">>
PkgInit   == <<"p", "app", "pkg", "__init__.py">>
PkgA      == <<"p", "app", "pkg", "a.py">>
PkgUtil   == <<"p", "app", "pkg", "util.py">>
PkgB      == <<"p", "app", "pkg", "b.py">>
PkgBInit  == <<"p", "app", "pkg", "b", "__init__.py">>
VenvV     == <<"p", "app", "venv", "v.py">>
App2X     == <<"p", "app2", "x.py">>

AppDir    == <<"p", "app">>
PDir      == <<"p">>

\* files every drawn project has, and files it may or may not have
CoreFiles     == {MainPy, UtilPy, CPy, PkgInit, PkgA, VenvV, App2X}
OptionalFiles == {PkgPy, PkgUtil, PkgB, PkgBInit}
Universe      == CoreFiles \cup OptionalFiles

\* files that may be unreadable or fail to parse
Fragile == {UtilPy, PkgA, CPy}

Import(names)          == [kind |-> "Import", names |-> names]
ImportFrom(level, mod) == [kind |-> "ImportFrom", level |-> level, module |-> mod]
Block(body)            == [kind |-> "Block", body |-> body]
Module(body)           == [kind |-> "Module", body |-> body]

\* The import statements written in each file, as the syntax tree of its
\* text.  A Block is any compound statement (def, class, if, try, with).
SourceTree(path) ==
    CASE path = MainPy ->
            \* def setup():
            \*     import pkg.a
            \* import util
            \* from ..app2.x import run
            Module(<< Block(<< Import(<< <<"pkg", "a">> >>) >>),
                      Import(<< <<"util">> >>),
                      ImportFrom(2, <<"app2", "x">>) >>)
      [] path = UtilPy ->
            \* import main, util
            \* if DEBUG:
            \*     try:
            \*         import venv.v
            \* import c
            Module(<< Import(<< <<"main">>, <<"util">> >>),
                      Block(<< Block(<< Import(<< <<"venv", "v">> >>) >>) >>),
                      Import(<< <<"c">> >>) >>)
      [] path = PkgA ->
            \* import util
            \* from .b import y
            \* from ..c import z
            Module(<< Import(<< <<"util">> >>),
                      ImportFrom(1, <<"b">>),
                      ImportFrom(2, <<"c">>) >>)
      [] path = PkgUtil ->
            \* from . import w
            \* from a import f
            Module(<< ImportFrom(1, <<>>),
                      ImportFrom(0, <<"a">>) >>)
      [] path = CPy ->
            \* from ....p.app2.x import q
            Module(<< ImportFrom(4, <<"p", "app2", "x">>) >>)
      [] path = PkgB ->
            \* import venv.v
            Module(<< Import(<< <<"venv", "v">> >>) >>)
      [] path = PkgBInit ->
            \* from .. import k
            Module(<< ImportFrom(2, <<>>) >>)
      [] path = App2X ->
            \* import main
            Module(<< Import(<< <<"main">> >>) >>)
      [] path = VenvV ->
            \* import main
            Module(<< Import(<< <<"main">> >>) >>)
      [] OTHER -> Module(<< >>)

\* what f.read() returns for a path: its text, which either is valid Python
\* or is not
Text(path) == [src |-> path, valid |-> path \notin unparsable]

----------------------------------------------------------------------------
(* find_git_root, main: the project root *)

RECURSIVE find_git_root(_)
\* walks upward until a directory holding .git is found: <<dir>>, or <<>>
\* (None) when "/" is reached without finding one
find_git_root(current_dir) ==
    IF current_dir \in gitDirs THEN <<current_dir>>
    ELSE IF dirname(current_dir) = current_dir THEN <<>>
    ELSE find_git_root(dirname(current_dir))

\* main(): project_root = git_root if git_root else starting_dir
project_root_of(starting_file) ==
    LET starting_dir == dirname(starting_file)
        git_root == find_git_root(starting_dir)
    IN IF git_root # <<>> THEN git_root[1] ELSE starting_dir

----------------------------------------------------------------------------
(* should_ignore *)

ignore_set == {".git", ".gitignore", ".gitmodules", "venv", ".venv", "env",
               "site-packages"}

\* spec.match_file(rel) for a spec of plain-name patterns: a pattern without
\* a slash matches a file or directory of that name at any depth, and
\* everything below such a directory
match_file(patterns, rel) ==
    \E i \in 1..Len(rel) : rel[i] \in patterns

should_ignore(path, project_root, patterns) ==
    \/ \E i \in 1..Len(path) : path[i] = "__pycache__"
    \/ \E i \in 1..Len(path) : path[i] \in ignore_set
    \/ /\ patterns # {}
       /\ match_file(patterns, relpath(path, project_root))

----------------------------------------------------------------------------
(* resolve_module, resolve_import *)

\* None is <<>>, a resolved path p is <<p>>
resolve_module(module_name, base_dir) ==
    LET file_path == AddPy(base_dir \o module_name)
        package_path == base_dir \o module_name \o <<"__init__.py">>
    IN IF isfile(file_path) THEN <<file_path>>
       ELSE IF isfile(package_path) THEN <<package_path>>
       ELSE <<>>

\* project_root first, the importing file's directory second
resolve_absolute_root_first(module_name, current_file, project_root) ==
    LET resolved == resolve_module(module_name, project_root)
    IN IF resolved = <<>>
       THEN resolve_module(module_name, dirname(current_file))
       ELSE resolved

\* the importing file's directory first, project_root only when that yields
\* nothing (the same four lines serve `import X` and `from X import ...`)
resolve_absolute(module_name, current_file, project_root) ==
    LET current_dir == dirname(current_file)
        resolved == resolve_module(module_name, current_dir)
    IN IF resolved = <<>> THEN resolve_module(module_name, project_root)
       ELSE resolved

RECURSIVE climb_level(_, _)
\* one dirname too many: range(node.level) instead of range(node.level - 1)
climb_level(current_dir, steps) ==
    IF steps < 0 THEN current_dir
    ELSE climb_level(dirname(current_dir), steps - 1)

RECURSIVE climb(_, _)
\* for _ in range(steps): current_dir = os.path.dirname(current_dir)
climb(current_dir, steps) ==
    IF steps <= 0 THEN current_dir ELSE climb(dirname(current_dir), steps - 1)

\* the else-branch of resolve_import: a relative import
resolve_relative(level, module, current_file) ==
    LET current_dir == climb(dirname(current_file), level - 1)
        candidate_dir == IF module # <<>> THEN current_dir \o module
                         ELSE current_dir
        file_candidate == AddPy(candidate_dir)
        init_candidate == candidate_dir \o <<"__init__.py">>
    IN IF isfile(file_candidate) THEN <<file_candidate>>
       ELSE IF isfile(init_candidate) THEN <<init_candidate>>
       ELSE <<>>

RECURSIVE resolve_names(_, _, _)
\* for alias in node.names: ... results.append(resolved)
resolve_names(names, current_file, project_root) ==
    IF names = <<>> THEN <<>>
    ELSE resolve_absolute(Head(names), current_file, project_root)
         \o resolve_names(Tail(names), current_file, project_root)

resolve_import(node, current_file, project_root) ==
    IF node.kind = "Import"
    THEN resolve_names(node.names, current_file, project_root)
    ELSE IF node.level = 0
    THEN IF node.module # <<>>
         THEN resolve_absolute(node.module, current_file, project_root)
         ELSE <<>>
    ELSE resolve_relative(node.level, node.module, current_file)

----------------------------------------------------------------------------
(* ast.parse, ast.walk *)

\* a parser that never raises and hands back whatever imports the text shows
ast_parse_lenient(content) ==
    [ok |-> TRUE, tree |-> SourceTree(content.src)]

\* ast.parse(content): the tree, or an exception
ast_parse(content) ==
    IF content.valid THEN [ok |-> TRUE, tree |-> SourceTree(content.src)]
    ELSE [ok |-> FALSE, tree |-> Module(<< >>)]

iter_child_nodes(node) ==
    IF node.kind \in {"Module", "Block"} THEN node.body ELSE <<>>

RECURSIVE walk_todo(_)
\* ast.walk: todo = deque([node]); popleft, extend with the children, yield
walk_todo(todo) ==
    IF todo = <<>> THEN <<>>
    ELSE <<Head(todo)>> \o walk_todo(Tail(todo) \o iter_child_nodes(Head(todo)))

RECURSIVE walk_preorder(_)
\* the nodes in source order: a node, then its children's subtrees in turn
walk_preorder(todo) ==
    IF todo = <<>> THEN <<>>
    ELSE <<Head(todo)>>
         \o walk_preorder(iter_child_nodes(Head(todo)) \o Tail(todo))

ast_walk_preorder(tree) == walk_preorder(<<tree>>)

ast_walk(tree) == walk_todo(<<tree>>)

IsImportNode(node) == node.kind \in {"Import", "ImportFrom"}

\* the nodes the loop of collect_files acts on, in the order it meets them
import_nodes(tree) == SelectSeq(ast_walk(tree), IsImportNode)

----------------------------------------------------------------------------
(* collect_files *)

NoCall == <<"<none>">>

Keys == {collected[i].path : i \in 1..Len(collected)}

\* a membership test that never finds the path
never_collected(abs_path) == FALSE

in_collected(abs_path) == abs_path \in Keys

\* open(abs_path).read() succeeds
readable(abs_path) == abs_path \in files /\ abs_path \notin unreadable

\* os.path.commonpath([fp, project_root]) == project_root
within_root(fp, project_root) == commonpath(fp, project_root) = project_root

\* history: the file whose loop made the call that records abs_path
NoteVia(abs_path) ==
    IF stack = <<>> THEN via ELSE via \cup {<<Head(stack).file, abs_path>>}

\* a call returns to its caller; when the outermost call returns, main goes
\* on to generate_context and os.walk starts at project_root
ReturnTo(stk) ==
    /\ stack' = stk
    /\ IF stk = <<>>
       THEN phase' = "report" /\ walkTodo' = <<root>>
       ELSE phase' = "collect" /\ walkTodo' = walkTodo

\* if abs_path in collected: return collected
CallCollected ==
    /\ phase = "collect" /\ call # NoCall
    /\ in_collected(call)
    /\ call' = NoCall
    /\ ReturnTo(stack)
    /\ UNCHANGED <<fsVars, collected, reads, via, followed, lastRes, printed>>

\* if should_ignore(abs_path, project_root, spec): return collected
CallIgnored ==
    /\ phase = "collect" /\ call # NoCall
    /\ ~in_collected(call)
    /\ should_ignore(call, root, spec)
    /\ call' = NoCall
    /\ ReturnTo(stack)
    /\ UNCHANGED <<fsVars, collected, reads, via, followed, lastRes, printed>>

\* a read failure that is not caught: every enclosing call is left as well
ReadFailAborts ==
    /\ phase = "collect" /\ call # NoCall
    /\ ~in_collected(call)
    /\ ~should_ignore(call, root, spec)
    /\ ~readable(call)
    /\ reads' = [reads EXCEPT ![call] = @ + 1]
    /\ call' = NoCall
    /\ ReturnTo(<<>>)
    /\ UNCHANGED <<fsVars, collected, via, followed, lastRes, printed>>

\* the read raises: "Error reading ...", return collected
ReadFail ==
    /\ phase = "collect" /\ call # NoCall
    /\ ~in_collected(call)
    /\ ~should_ignore(call, root, spec)
    /\ ~readable(call)
    /\ reads' = [reads EXCEPT ![call] = @ + 1]
    /\ call' = NoCall
    /\ ReturnTo(stack)
    /\ UNCHANGED <<fsVars, collected, via, followed, lastRes, printed>>

\* the read succeeds and the file is recorded; ast.parse raises:
\* "Error parsing ...", return collected
ParseFail ==
    /\ phase = "collect" /\ call # NoCall
    /\ ~in_collected(call)
    /\ ~should_ignore(call, root, spec)
    /\ readable(call)
    /\ ~ast_parse(Text(call)).ok
    /\ reads' = [reads EXCEPT ![call] = @ + 1]
    /\ collected' = Append(collected, [path |-> call, content |-> Text(call)])
    /\ via' = NoteVia(call)
    /\ call' = NoCall
    /\ ReturnTo(stack)
    /\ UNCHANGED <<fsVars, followed, lastRes, printed>>

\* the read succeeds, the file is recorded and parsed, and the loop over
\* ast.walk(tree) starts
Visit ==
    /\ phase = "collect" /\ call # NoCall
    /\ ~in_collected(call)
    /\ ~should_ignore(call, root, spec)
    /\ readable(call)
    /\ ast_parse(Text(call)).ok
    /\ reads' = [reads EXCEPT ![call] = @ + 1]
    /\ collected' = Append(collected, [path |-> call, content |-> Text(call)])
    /\ via' = NoteVia(call)
    /\ stack' = <<[file |-> call,
                   nodes |-> import_nodes(ast_parse(Text(call)).tree),
                   node |-> Module(<< >>),
                   file_paths |-> <<>>]>> \o stack
    /\ call' = NoCall
    /\ UNCHANGED <<fsVars, phase, followed, lastRes, walkTodo, printed>>

\* the loop reaches the next Import/ImportFrom node:
\* file_paths = resolve_import(node, abs_path, project_root)
NextNode ==
    /\ phase = "collect" /\ call = NoCall /\ stack # <<>>
    /\ Head(stack).file_paths = <<>>
    /\ Head(stack).nodes # <<>>
    /\ LET top == Head(stack)
           node == Head(top.nodes)
           res == resolve_import(node, top.file, root)
       IN /\ stack' = <<[top EXCEPT !.nodes = Tail(top.nodes),
                                    !.node = node,
                                    !.file_paths = res]>> \o Tail(stack)
          /\ lastRes' = [file |-> top.file, node |-> node, results |-> res]
    /\ UNCHANGED <<fsVars, phase, call, collected, reads, via, followed,
                   walkTodo, printed>>

\* for fp in file_paths, fp inside project_root: collect_files(fp, ...)
FollowPath ==
    /\ phase = "collect" /\ call = NoCall /\ stack # <<>>
    /\ Head(stack).file_paths # <<>>
    /\ LET top == Head(stack)
           fp == Head(top.file_paths)
       IN /\ within_root(fp, root)
          /\ stack' = <<[top EXCEPT !.file_paths = Tail(top.file_paths)]>>
                      \o Tail(stack)
          /\ call' = fp
          /\ followed' = followed \cup {<<top.file, top.node, fp>>}
    /\ UNCHANGED <<fsVars, phase, collected, reads, via, lastRes, walkTodo,
                   printed>>

\* for fp in file_paths, fp outside project_root: nothing is done with it
SkipPath ==
    /\ phase = "collect" /\ call = NoCall /\ stack # <<>>
    /\ Head(stack).file_paths # <<>>
    /\ LET top == Head(stack)
           fp == Head(top.file_paths)
       IN /\ ~within_root(fp, root)
          /\ stack' = <<[top EXCEPT !.file_paths = Tail(top.file_paths)]>>
                      \o Tail(stack)
    /\ UNCHANGED <<fsVars, phase, call, collected, reads, via, followed,
                   lastRes, walkTodo, printed>>

\* the loop is over: return collected
Return ==
    /\ phase = "collect" /\ call = NoCall /\ stack # <<>>
    /\ Head(stack).file_paths = <<>>
    /\ Head(stack).nodes = <<>>
    /\ ReturnTo(Tail(stack))
    /\ UNCHANGED <<fsVars, call, collected, reads, via, followed, lastRes,
                   printed>>

----------------------------------------------------------------------------
(* generate_context: the filtered directory tree *)

RECURSIVE SetToSeq(_)
\* a directory listing: the order is the file system's, fixed for a run
SetToSeq(S) ==
    IF S = {} THEN <<>>
    ELSE LET x == CHOOSE y \in S : TRUE IN <<x>> \o SetToSeq(S \ {x})

\* everything on disk: the files, the .gitignore the spec was compiled from
DiskFiles ==
    files \cup (IF spec # {} THEN {root \o <<".gitignore">>} ELSE {})

\* the directories on disk: every ancestor of a file, and the .git folders
DiskDirs ==
    UNION {{SubSeq(f, 1, n) : n \in 0..(Len(f) - 1)} : f \in DiskFiles}
    \cup {g \o <<".git">> : g \in gitDirs} \cup {root}

\* one step of os.walk: the sub-directories and files of a directory
listdirs(top)  == {d \in DiskDirs : d # <<>> /\ dirname(d) = top}
listfiles(top) == {f \in DiskFiles : dirname(f) = top}

\* dirs[:] = [d for d in dirs if not should_ignore(...)]
keep_dirs(top) ==
    {d \in listdirs(top) : ~should_ignore(d, root, spec)}

\* files = [f for f in files if not should_ignore(...)]
keep_files(top) ==
    {f \in listfiles(top) : ~should_ignore(f, root, spec)}

\* one iteration of `for root, dirs, files in os.walk(project_root)`: the
\* directory's own line, then one line per kept file; the kept
\* sub-directories are walked next, before the directory's siblings
WalkDir ==
    /\ phase = "report" /\ walkTodo # <<>>
    /\ LET top == Head(walkTodo)
           lines == <<[path |-> top, isDir |-> TRUE]>>
                    \o [i \in 1..Cardinality(keep_files(top)) |->
                          [path |-> SetToSeq(keep_files(top))[i], isDir |-> FALSE]]
       IN /\ printed' = printed \o lines
          /\ walkTodo' = SetToSeq(keep_dirs(top)) \o Tail(walkTodo)
    /\ UNCHANGED <<fsVars, phase, call, stack, collected, reads, via, followed,
                   lastRes>>

\* os.walk is exhausted: the report is complete
Finish ==
    /\ phase = "report" /\ walkTodo = <<>>
    /\ phase' = "done"
    /\ UNCHANGED <<fsVars, call, stack, collected, reads, via, followed,
                   lastRes, walkTodo, printed>>

----------------------------------------------------------------------------
(* The runs *)

\* the entry files of the runs made through main()
MainEntries == {MainPy, PkgA, VenvV, App2X}

NoRes == [file |-> <<>>, node |-> Module(<< >>), results |-> <<>>]

Init ==
    /\ \E opt \in SUBSET OptionalFiles : files = CoreFiles \cup opt
    /\ unreadable \in SUBSET Fragile
    /\ unparsable \in SUBSET Fragile
    /\ unreadable \cap unparsable = {}
    /\ Cardinality(unreadable \cup unparsable) <= MaxFaults
    /\ gitDirs \in {{}, {AppDir}, {PDir}}
    /\ spec \in {{}, {"util.py"}}
    /\ entry \in MainEntries
       \* main() derives project_root from the entry file; collect_files
       \* called directly is handed any root
    /\ \/ root = project_root_of(entry)
       \/ entry = App2X /\ root = AppDir
    /\ phase = "collect"
    /\ call = entry
    /\ stack = <<>>
    /\ collected = <<>>
    /\ reads = [f \in Universe |-> 0]
    /\ via = {}
    /\ followed = {}
    /\ lastRes = NoRes
    /\ walkTodo = <<>>
    /\ printed = <<>>

Next ==
    \/ CallCollected
    \/ CallIgnored
    \/ ReadFail
    \/ ParseFail
    \/ Visit
    \/ NextNode
    \/ FollowPath
    \/ SkipPath
    \/ Return
    \/ WalkDir
    \/ Finish

Spec == Init /\ [][Next]_vars

\* every step of the program is taken when it can be: the run is one
\* sequential call, nothing can starve it
LiveSpec == Spec /\ WF_vars(Next)

----------------------------------------------------------------------------
(* Vocabulary of the properties *)

Range(seq) == {seq[i] : i \in 1..Len(seq)}

\* path containment: root's segments are the first segments of path
UnderRoot(path, r) ==
    Len(path) >= Len(r) /\ SubSeq(path, 1, Len(r)) = r

Returned == phase # "collect"

\* the directory n levels above dir; above "/" there is only "/"
Ancestor(dir, n) ==
    IF n >= Len(dir) THEN <<>> ELSE SubSeq(dir, 1, Len(dir) - n)

RECURSIVE ImportsIn(_)
\* the import declarations written anywhere in a syntax tree
ImportsIn(node) ==
    IF node.kind \in {"Import", "ImportFrom"} THEN {node}
    ELSE UNION {ImportsIn(node.body[i]) : i \in 1..Len(node.body)}

\* the files the import declarations of a file resolve to
Targets(f) ==
    UNION {Range(resolve_import(n, f, root)) : n \in ImportsIn(SourceTree(f))}

\* a file the traversal may record: inside root, not ignored, readable
Collectable(f) ==
    /\ UnderRoot(f, root)
    /\ ~should_ignore(f, root, spec)
    /\ f \in files /\ f \notin unreadable

\* the import edges the traversal can follow out of a file
Edges(f) ==
    IF f \in unparsable THEN {} ELSE {t \in Targets(f) : Collectable(t)}

RECURSIVE Closure(_)
Closure(S) ==
    LET T == S \cup UNION {Edges(f) : f \in S}
    IN IF T = S THEN S ELSE Closure(T)

\* the files reachable from the entry file by chains of collectable files
Reach == IF Collectable(entry) THEN Closure({entry}) ELSE {}

PrintedPaths == {printed[i].path : i \in 1..Len(printed)}

----------------------------------------------------------------------------
(* C1: containment *)

\* C1: in every state of a run, every key of the collected mapping, the
\* entry file's own path included, lies under root by path containment (a
\* file of a sibling directory whose name only extends root's is no key).
C1_Containment ==
    \A k \in Keys : UnderRoot(k, root)

----------------------------------------------------------------------------
(* C2: ignore consistency *)

\* C2: a path for which should_ignore is true is never a key of the
\* collected mapping and never a directory or file line of the printed
\* tree, both under the same spec.
C2_IgnoreConsistency ==
    \A p \in Keys \cup PrintedPaths : ~should_ignore(p, root, spec)

----------------------------------------------------------------------------
(* C5: completeness under per-file failures *)

\* C5: once collect_files has returned, every file reachable from the entry
\* file through collectable files that parse (the last one may fail to
\* parse) is a key of the mapping, whatever other files failed to read or
\* to parse on the way.
C5_Completeness ==
    Returned => Reach \subseteq Keys

\* a finished run in which a read or a parse failed and three or more
\* reachable files were recorded all the same
C5_Witness ==
    /\ phase = "done"
    /\ Cardinality(Reach) >= 3
    /\ Reach \subseteq Keys
    /\ \/ \E u \in unreadable : reads[u] >= 1
       \/ \E i \in 1..Len(collected) :
             /\ collected[i].path \in unparsable
             /\ i < Len(collected)

----------------------------------------------------------------------------
(* C10: relative import without a module name *)

\* C10: for `from . import x` (level L >= 1, no module name) resolve_import
\* looks only at the base directory reached by climbing L-1 levels, as a
\* package: it returns base/__init__.py when that is a file and nothing
\* otherwise; a file <base>.py beside the base directory is never returned.
C10_BarePackageOnly ==
    (lastRes.node.kind = "ImportFrom" /\ lastRes.node.level >= 1
        /\ lastRes.node.module = <<>>)
    => LET init == Ancestor(dirname(lastRes.file), lastRes.node.level - 1)
                   \o <<"__init__.py">>
       IN lastRes.results = IF init \in files THEN <<init>> ELSE <<>>

----------------------------------------------------------------------------
(* C3: termination on cycles *)

\* a recorded path is recorded once, read once, and has at most one frame
C3_NoReentry ==
    /\ \A i, j \in 1..Len(collected) :
          collected[i].path = collected[j].path => i = j
    /\ \A i, j \in 1..Len(stack) : stack[i].file = stack[j].file => i = j
    /\ \A i \in 1..Len(stack) : stack[i].file \in Keys
    /\ \A k \in Keys : reads[k] = 1

\* the entry file A imports B and nothing else, B imports A (and may import
\* itself) and nothing else
TwoCycle(B) ==
    /\ B # entry
    /\ Collectable(entry)
    /\ Edges(entry) \in {{B}, {B, entry}}
    /\ Edges(B) \in {{entry}, {entry, B}}

C3_TwoCycleResult ==
    Returned =>
        \A B \in Edges(entry) \ {entry} : TwoCycle(B) => Keys = {entry, B}

\* C3: collect_files eventually returns on every import graph, cycles and
\* self-imports included; a path already in the mapping is never entered
\* again; for A importing B and B importing A the result is exactly {A, B}.
C3_CycleTermination ==
    /\ <>Returned
    /\ []C3_NoReentry
    /\ []C3_TwoCycleResult

\* a finished run over a two-file cycle
C3_Witness ==
    /\ phase = "done"
    /\ \E B \in Universe : TwoCycle(B) /\ Keys = {entry, B}

----------------------------------------------------------------------------
(* C4: visit-once *)

\* C4, as stated: the read of a path is attempted at most once in a run,
\* however many import declarations resolve to it.
C4_ReadAttemptedOnce ==
    \A f \in Universe : reads[f] <= 1

\* D is imported by B and by C, both imported by the entry file
Diamond(B, C, D) ==
    /\ Cardinality({entry, B, C, D}) = 4
    /\ Collectable(entry)
    /\ {B, C} \subseteq Edges(entry)
    /\ D \in Edges(B) \cap Edges(C)

\* C4, amended: a path whose read succeeds is read exactly once and recorded
\* once, however many declarations resolve to it (in the diamond A->B, A->C,
\* B->D, C->D the result holds A, B, C, D and D is read exactly once); only
\* a path whose read fails is never recorded and is tried again.
C4_ReadOnceWhenReadable ==
    /\ \A f \in Universe : reads[f] > 1 => f \in unreadable
    /\ \A k \in Keys : reads[k] = 1
    /\ (Returned /\ Collectable(entry)) =>
          \A B, C \in Edges(entry) : \A D \in Edges(B) \cap Edges(C) :
              Diamond(B, C, D) =>
                  /\ {entry, B, C, D} \subseteq Keys
                  /\ reads[D] = 1
                  /\ Reach = {entry, B, C, D} => Keys = {entry, B, C, D}

\* a finished run over a diamond of exactly four files
C4_Witness ==
    /\ phase = "done"
    /\ \E B, C, D \in Universe :
          /\ Diamond(B, C, D)
          /\ Keys = {entry, B, C, D}
          /\ reads[D] = 1

----------------------------------------------------------------------------
(* C6, C7: what a declaration resolves to *)

\* module m below a base directory: base/m.py if it is a file, otherwise
\* base/m/__init__.py if that is one, otherwise nothing
Cand(base, m) ==
    LET single == base \o SubSeq(m, 1, Len(m) - 1) \o <<PyName[m[Len(m)]]>>
        package == base \o m \o <<"__init__.py">>
    IN IF single \in files THEN <<single>>
       ELSE IF package \in files THEN <<package>>
       ELSE <<>>

\* the module names of an absolute declaration (import X, Y / from X import)
AbsNames(node) ==
    IF node.kind = "Import" THEN Range(node.names)
    ELSE IF node.kind = "ImportFrom" /\ node.level = 0 /\ node.module # <<>>
    THEN {node.module}
    ELSE {}

\* the loop of the innermost call is done with every path of its current
\* declaration
TopSettled ==
    /\ phase = "collect" /\ call = NoCall /\ stack # <<>>
    /\ Head(stack).file_paths = <<>>

C7_RelativeArithmetic ==
    (lastRes.node.kind = "ImportFrom" /\ lastRes.node.level >= 1) =>
        /\ Len(lastRes.results) <= 1
        /\ lastRes.node.module # <<>> =>
              lastRes.results =
                  Cand(Ancestor(dirname(lastRes.file), lastRes.node.level - 1),
                       lastRes.node.module)

\* `from ..c import z` in /p/app/pkg/a.py gave /p/app/c.py
C7_Witness ==
    /\ lastRes.file = PkgA
    /\ lastRes.node = ImportFrom(2, <<"c">>)
    /\ lastRes.results = <<CPy>>

----------------------------------------------------------------------------
(* C8: a file that fails to parse *)

C8_Recorded ==
    \A i \in 1..Len(collected) :
        LET e == collected[i]
        IN /\ e.content = Text(e.path)
           /\ e.path \in unparsable =>
                 /\ \A j \in 1..Len(stack) : stack[j].file # e.path
                 /\ \A pair \in via : pair[1] # e.path
                 /\ \A t \in followed : t[1] # e.path

C8_EntriesKept ==
    /\ Len(collected') >= Len(collected)
    /\ \A i \in 1..Len(collected) : collected'[i] = collected[i]

\* C8: a visited file whose content fails to parse is a key of the mapping
\* with its raw content, none of its import declarations is followed and no
\* file is added on its account, and the entries recorded before stay as
\* they were.
C8_ParseFailure ==
    /\ []C8_Recorded
    /\ [][C8_EntriesKept]_vars

\* a finished run that recorded an unparsable file and left alone a file
\* its imports would have led to
C8_Witness ==
    /\ phase = "done"
    /\ \E k \in Keys \cap unparsable :
          \E t \in Targets(k) : Collectable(t) /\ t \notin Keys

----------------------------------------------------------------------------
(* C9: recording order *)

CollectedPaths == [i \in 1..Len(collected) |-> collected[i].path]

RECURSIVE Preorder(_)
\* the nodes of a forest in source order
Preorder(nodes) ==
    IF nodes = <<>> THEN <<>>
    ELSE <<Head(nodes)>>
         \o Preorder(IF Head(nodes).kind = "Block" THEN Head(nodes).body ELSE <<>>)
         \o Preorder(Tail(nodes))

RECURSIVE ChildrenOf(_)
ChildrenOf(nodes) ==
    IF nodes = <<>> THEN <<>>
    ELSE (IF Head(nodes).kind = "Block" THEN Head(nodes).body ELSE <<>>)
         \o ChildrenOf(Tail(nodes))

RECURSIVE LevelOrder(_)
\* the nodes of a forest level by level: every node of a nesting depth, in
\* source order, before any node of the next depth
LevelOrder(nodes) ==
    IF nodes = <<>> THEN <<>> ELSE nodes \o LevelOrder(ChildrenOf(nodes))

\* the import declarations of a file in the order named
Decls(order, f) ==
    SelectSeq(IF order = "source" THEN Preorder(SourceTree(f).body)
              ELSE LevelOrder(SourceTree(f).body),
              IsImportNode)

RECURSIVE PathsOf(_, _)
PathsOf(f, decls) ==
    IF decls = <<>> THEN <<>>
    ELSE resolve_import(Head(decls), f, root) \o PathsOf(f, Tail(decls))

RECURSIVE DepthFirst(_, _, _)
RECURSIVE DepthFirstEach(_, _, _)
\* depth-first first-discovery order from file f, after the files in acc
DepthFirst(order, f, acc) ==
    IF f \in Range(acc) \/ should_ignore(f, root, spec) \/ ~readable(f)
    THEN acc
    ELSE IF f \in unparsable THEN Append(acc, f)
    ELSE DepthFirstEach(order, PathsOf(f, Decls(order, f)), Append(acc, f))

DepthFirstEach(order, paths, acc) ==
    IF paths = <<>> THEN acc
    ELSE DepthFirstEach(order, Tail(paths),
                        IF UnderRoot(Head(paths), root)
                        THEN DepthFirst(order, Head(paths), acc)
                        ELSE acc)

\* C9, as stated: the mapping's insertion order is the depth-first
\* first-discovery order with the declarations of a file followed in source
\* order, nested ones included.
C9_SourceOrder ==
    Returned => CollectedPaths = DepthFirst("source", entry, <<>>)

\* C9, amended: the mapping's insertion order is the depth-first
\* first-discovery order with the declarations of a file followed in the
\* breadth-first order of its syntax tree: level by level, source order
\* within a level, so that a declaration nested in a function, class or
\* conditional block comes after every top-level import of the file.
C9_BreadthFirstOrder ==
    Returned => CollectedPaths = DepthFirst("breadth", entry, <<>>)

\* a finished run in which the two orders differ
C9_Witness ==
    /\ phase = "done"
    /\ Len(collected) >= 3
    /\ CollectedPaths = DepthFirst("breadth", entry, <<>>)
    /\ CollectedPaths # DepthFirst("source", entry, <<>>)

====
